---- MODULE Spec2Model ----
(***************************************************************************)
(* State-machine model of the keyed resource arenas of titan_rs: the       *)
(* slot-map arenas behind SlotMappable, the creation and teardown          *)
(* protocols of CommandPool, Framebuffer, PhysicalDevice and               *)
(* GraphicsPipeline, and the physical-device selection of Renderer::new.   *)
(***************************************************************************)
EXTENDS Integers, Sequences, FiniteSets, Bags, TLC

(***************************************************************************)
(* Bounds of the model and program constants.                              *)
(***************************************************************************)
\* slots one arena may grow to
MaxSlots == 2
\* highest slot version a remove may produce
MaxVersion == 4
\* native handles the driver hands out over one run
MaxHandles == 3
\* candidates one enumeration of physical devices returns
MaxCands == 3
\* calls of init one thread makes
MaxCalls == 2

\* a u32 is held as two 16-bit limbs: [hi, lo] stands for hi * 2^16 + lo
Limb == 65536
DiscreteBonus == 1000
IntegratedBonus == 100

Threads == {"t1", "t2"}

(***************************************************************************)
(* Option values (Rust's Option / Result), as records so that any two      *)
(* values can be compared.                                                 *)
(***************************************************************************)
None == [tag |-> "None"]
Some(v) == [tag |-> "Some", val |-> v]
IsSome(o) == o.tag = "Some"

(***************************************************************************)
(* slotmap::SlotMap<Key, T>: a vector of slots, each with a u32 version    *)
(* (odd = occupied, even = vacant), and a LIFO free list of vacant slots.  *)
(* A key is (idx, version); slot 0 is the crate's sentinel, so real        *)
(* indices start at 1. Versions wrap at 2^32, far beyond MaxVersion, the   *)
(* highest version a run of the model reaches.                             *)
(***************************************************************************)
Vacant == [tag |-> "Vacant"]
EmptySlotMap == [slots |-> << >>, free |-> << >>]
Key(i, v) == [idx |-> i, version |-> v]
\* slotmap::Key::null(): version 1 and an index no slot has (u32::MAX in the
\* crate, 0 here)
NullKey == Key(0, 1)

\* SlotMap::get(key): the value when the slot exists and its version is the key's
SmGet(m, k) ==
    IF k.idx \in 1..Len(m.slots) /\ m.slots[k.idx].version = k.version
       /\ m.slots[k.idx].value # Vacant
    THEN Some(m.slots[k.idx].value)
    ELSE None

\* version | 1
OrOne(v) == IF v % 2 = 0 THEN v + 1 ELSE v

\* a plausible slip: the free list is not consulted for the key
SmNextKey_NoFreeList(m) == Key(Len(m.slots) + 1, 1)

\* the key the next insert_with_key will hand to its closure: the head of the
\* free list under occupied_version = slot.version | 1, else a new slot
SmNextKey(m) ==
    IF m.free # << >>
    THEN Key(Head(m.free), OrOne(m.slots[Head(m.free)].version))
    ELSE Key(Len(m.slots) + 1, 1)

SmCanInsert(m) == m.free # << >> \/ Len(m.slots) < MaxSlots

\* a plausible slip: a reused slot is handed out under a fresh slot's version
SmInsertWithKey_FirstVersion(m, rec) ==
    IF m.free # << >>
    THEN [slots |-> [m.slots EXCEPT ![Head(m.free)] =
                        [version |-> 1, value |-> rec]],
          free |-> Tail(m.free)]
    ELSE [slots |-> Append(m.slots, [version |-> 1, value |-> rec]),
          free |-> m.free]

\* SlotMap::insert_with_key: reuse the head of the free list under the slot's
\* next (odd) version, else push a new slot with version 1. `rec` is the record
\* the closure built from SmNextKey(m).
SmInsertWithKey(m, rec) ==
    IF m.free # << >>
    THEN [slots |-> [m.slots EXCEPT ![Head(m.free)] =
                        [version |-> SmNextKey(m).version, value |-> rec]],
          free |-> Tail(m.free)]
    ELSE [slots |-> Append(m.slots, [version |-> 1, value |-> rec]),
          free |-> m.free]

\* a plausible slip: the version of the vacated slot is not bumped
SmRemove_KeepVersion(m, k) ==
    IF IsSome(SmGet(m, k))
    THEN [slots |-> [m.slots EXCEPT ![k.idx] =
                        [version |-> k.version, value |-> Vacant]],
          free |-> <<k.idx>> \o m.free]
    ELSE m

\* SlotMap::remove(key): a no-op for a stale key; else the slot becomes vacant,
\* its version is bumped and it becomes the head of the free list
SmRemove(m, k) ==
    IF IsSome(SmGet(m, k))
    THEN [slots |-> [m.slots EXCEPT ![k.idx] =
                        [version |-> k.version + 1, value |-> Vacant]],
          free |-> <<k.idx>> \o m.free]
    ELSE m

SmCanRemove(m, k) == IsSome(SmGet(m, k)) => k.version + 1 <= MaxVersion

\* the keys of the live records
SmKeys(m) ==
    {Key(i, m.slots[i].version) : i \in {j \in 1..Len(m.slots) : m.slots[j].value # Vacant}}

SmIsEmpty(m) == SmKeys(m) = {}

\* the keys once issued for a slot and no longer live
SmStaleKeys(m) ==
    {k \in {Key(i, v) : i \in 1..Len(m.slots), v \in 1..MaxVersion} :
        k.version % 2 = 1 /\ k.version < m.slots[k.idx].version}

(***************************************************************************)
(* State.                                                                  *)
(***************************************************************************)
VARIABLES
    arenas,        \* arena name -> SlotMap: the static RwLock<SlotMap<Key, T>> per type
    held,          \* thread -> sequence of [a, m]: lock guards held, in acquisition order
    pc,            \* thread -> position in the operation it runs
    loc,           \* thread -> arguments and locals of the operation it runs
    last,          \* outcome of the call that finished last
    nativeLive,    \* native handles created by the driver and not destroyed
    nativeDead,    \* native handles passed to a native destroy call
    nextHandle,    \* next native handle the driver hands out
    framebuffers,  \* Framebuffer values owned by callers
    pipelines,     \* GraphicsPipeline values owned by callers
    wrongOrder,    \* history: a record was released while a dependant still existed
    sm,            \* the arena alone: one SlotMap
    smIssued,      \* the arena alone: keys returned by insert, in order
    smRemoved,     \* the arena alone: keys that were removed
    smLast,        \* the arena alone: the last arena call and what it returned
    cands,         \* selection: the enumerated physical devices
    required,      \* selection: REQUIRED_EXTENSIONS
    build,         \* selection: whether the build checks arithmetic overflow
    sel,           \* selection: progress and outcome of Renderer::new
    poisoned,      \* arenas whose RwLock is poisoned
    torn,          \* history: bag of native handles, one copy per teardown run on their owner
    destroyCalls,  \* history: bag of native handles, one copy per native destroy call
    flag,          \* init: the static FLAG AtomicBool
    ipc,           \* init: thread -> position in its call of init
    calls,         \* init: thread -> calls of init it has made
    newCalls,      \* init: history, executions of Application::new
    initLast,      \* init: outcome of the call of init that finished last
    app            \* the Application and its event loop

engineVars == <<arenas, held, pc, loc, last, nativeLive, nativeDead, nextHandle,
                framebuffers, pipelines, wrongOrder>>
arenaVars == <<sm, smIssued, smRemoved, smLast>>
selectVars == <<cands, required, build, sel>>
historyVars == <<poisoned, torn, destroyCalls>>
appVars == <<flag, ipc, calls, newCalls, initLast, app>>
vars == <<engineVars, arenaVars, selectVars, historyVars, appVars>>

\* no Application: init has not been called
AppNone ==
    [state |-> "none", control_flow |-> "Poll", egui |-> FALSE, visible |-> FALSE,
     size_zero |-> FALSE, ev |-> "none", failed |-> FALSE,
     delivered |-> << >>, logged |-> << >>]
InitNone == [t |-> "none", status |-> "none", kind |-> "none", second |-> FALSE]
AppIdle ==
    /\ flag = FALSE
    /\ ipc = [t \in Threads |-> "idle"]
    /\ calls = [t \in Threads |-> 0]
    /\ newCalls = 0
    /\ initLast = InitNone
    /\ app = AppNone
\* no lock is poisoned, nothing has been torn down
HistoryInit ==
    /\ poisoned = {}
    /\ torn = EmptyBag
    /\ destroyCalls = EmptyBag

(***************************************************************************)
(* The arena alone: inserts, removes and lookups on one SlotMap. Every     *)
(* call runs under the arena's RwLock (insert and remove under write()),   *)
(* so the calls of different threads are serialized.                       *)
(***************************************************************************)
Payloads == {"a", "b"}

ArenaInit ==
    /\ sm = EmptySlotMap
    /\ smIssued = << >>
    /\ smRemoved = {}
    /\ smLast = [op |-> "none", key |-> NullKey, out |-> None]

\* an arena call leaves the other parts of the model alone
ArenaStep ==
    UNCHANGED <<arenas, held, pc, loc, last, nativeLive, nativeDead, nextHandle,
                framebuffers, pipelines, wrongOrder, cands, required, build, sel,
                historyVars, appVars>>

\* the record insert_with_key's closure builds: Self { key, handle, .. }
ArenaRecord(k, t, h) == [key |-> k, handle |-> h, owner |-> t]

\* slotmap.write().unwrap().insert_with_key(|key| Self { key, .. })
ArenaInsert(t, h) ==
    /\ ArenaStep
    /\ SmCanInsert(sm)
    /\ LET k == SmNextKey(sm)
           r == ArenaRecord(k, t, h)
       IN /\ sm' = SmInsertWithKey(sm, r)
          /\ smIssued' = Append(smIssued, k)
          /\ smLast' = [op |-> "insert", key |-> k, out |-> Some(r)]
    /\ UNCHANGED smRemoved

\* slotmap.write().unwrap().remove(key)
ArenaRemove(k) ==
    /\ ArenaStep
    /\ SmCanRemove(sm, k)
    /\ sm' = SmRemove(sm, k)
    /\ smRemoved' = IF IsSome(SmGet(sm, k)) THEN smRemoved \cup {k} ELSE smRemoved
    /\ smLast' = [op |-> "remove", key |-> k, out |-> SmGet(sm, k)]
    /\ UNCHANGED smIssued

\* slotmap.read().unwrap().get(key)
ArenaGet(k) ==
    /\ ArenaStep
    /\ smLast' = [op |-> "get", key |-> k, out |-> SmGet(sm, k)]
    /\ UNCHANGED <<sm, smIssued, smRemoved>>

ArenaKeys == SmKeys(sm) \cup SmStaleKeys(sm) \cup {NullKey}

ArenaNext ==
    \/ \E t \in Threads, h \in Payloads : ArenaInsert(t, h)
    \/ \E k \in ArenaKeys : ArenaRemove(k)
    \/ \E k \in ArenaKeys : ArenaGet(k)

(***************************************************************************)
(* The engine: one arena per resource type, the locks of the arenas, the   *)
(* native driver, and threads running creation and teardown protocols.     *)
(***************************************************************************)
ArenaNames == {"instance", "physical_device", "device", "command_pool",
               "swapchain", "render_pass", "pipeline_layout", "pipeline"}

\* the arena a record's parent key points into
ParentArena(a) ==
    CASE a = "physical_device" -> "instance"
      [] a = "device" -> "physical_device"
      [] a = "command_pool" -> "device"
      [] a = "swapchain" -> "device"
      [] a = "pipeline_layout" -> "device"
      [] a = "render_pass" -> "swapchain"
      [] a = "pipeline" -> "render_pass"
      [] OTHER -> "none"

RECURSIVE AncestorsOf(_)
AncestorsOf(a) ==
    IF ParentArena(a) = "none" THEN {}
    ELSE {ParentArena(a)} \cup AncestorsOf(ParentArena(a))

SmRecords(m) == {m.slots[i].value : i \in {j \in 1..Len(m.slots) : m.slots[j].value # Vacant}}

\* the keys a caller may pass: live ones, stale ones, and the null key
ArgKeys(a) == SmKeys(arenas[a]) \cup SmStaleKeys(arenas[a]) \cup {NullKey}

\* RwLock: any number of read guards, or one write guard
Holds(t, a) == \E i \in 1..Len(held[t]) : held[t][i].a = a
HoldsWrite(t, a) == \E i \in 1..Len(held[t]) : held[t][i] = [a |-> a, m |-> "W"]
CanRead(t, a) == \A u \in Threads \ {t} : ~HoldsWrite(u, a)
CanWrite(t, a) == \A u \in Threads : ~Holds(u, a)
Guard(a, m) == [a |-> a, m |-> m]
\* read() and write() return Err(PoisonError) on the lock of such an arena
Poisoned(a) == a \in poisoned

\* inserts that threads have still to make into arena a
InFlight(a) ==
    Cardinality({t \in Threads :
        \/ a = "command_pool" /\ pc[t] = "cp_insert"
        \/ a = "physical_device" /\ pc[t] = "pd_insert"})
Room(a) == (MaxSlots - Len(arenas[a].slots)) + Len(arenas[a].free) > InFlight(a)

\* no native object (the null handle)
NoHandle == [id |-> 0, kind |-> "none"]
LocIdle == [self |-> NullKey, key |-> NullKey, key2 |-> NullKey, rec |-> None,
            h |-> NoHandle, diff |-> FALSE]
\* what a finished call left behind: its outcome, whether a parent lookup
\* missed, whether two parents resolved to different devices, the native
\* create and destroy calls it made, and whether the driver rejected a create
ResNone == [op |-> "none", status |-> "none", kind |-> "none", key |-> NullKey,
            miss |-> FALSE, diff |-> FALSE, creates |-> 0, destroys |-> 0,
            rejected |-> FALSE]
Result(op, status, kind, key, miss, creates, destroys) ==
    [op |-> op, status |-> status, kind |-> kind, key |-> key,
     miss |-> miss, diff |-> FALSE, creates |-> creates, destroys |-> destroys,
     rejected |-> (kind = "Driver")]

\* the call returns (or unwinds): its guards are dropped
Finish(t, r) ==
    /\ pc' = [pc EXCEPT ![t] = "idle"]
    /\ loc' = [loc EXCEPT ![t] = LocIdle]
    /\ held' = [held EXCEPT ![t] = << >>]
    /\ last' = r

\* the native driver
DriverCanCreate == nextHandle <= MaxHandles
Handle(kind) == [id |-> nextHandle, kind |-> kind]
DriverCreate(kind) ==
    /\ DriverCanCreate
    /\ nativeLive' = nativeLive \cup {Handle(kind)}
    /\ nextHandle' = nextHandle + 1
    /\ UNCHANGED <<nativeDead, destroyCalls>>
DriverDestroy(h) ==
    /\ nativeLive' = nativeLive \ {h}
    /\ nativeDead' = nativeDead \cup {h}
    /\ destroyCalls' = destroyCalls (+) SetToBag({h})
    /\ UNCHANGED nextHandle
DriverIdle == UNCHANGED <<nativeLive, nativeDead, nextHandle, destroyCalls>>

\* an engine step leaves the other parts of the model alone; no operation
\* modelled from the sources panics while it holds a write guard, so none
\* poisons a lock
OtherParts ==
    UNCHANGED <<sm, smIssued, smRemoved, smLast, cands, required, build, sel,
                poisoned, appVars>>
EngineStep == OtherParts /\ UNCHANGED torn
\* the step that enters the teardown of the owner of native handle h
TeardownStep(h) == OtherParts /\ torn' = torn (+) SetToBag({h})

EngineInit ==
    /\ arenas = [a \in ArenaNames |-> EmptySlotMap]
    /\ held = [t \in Threads |-> << >>]
    /\ pc = [t \in Threads |-> "idle"]
    /\ loc = [t \in Threads |-> LocIdle]
    /\ last = ResNone
    /\ nativeLive = {}
    /\ nativeDead = {}
    /\ nextHandle = 1
    /\ framebuffers = {}
    /\ pipelines = {}
    /\ wrongOrder = FALSE
    /\ HistoryInit

(***************************************************************************)
(* CommandPool (command/pool.rs).                                          *)
(***************************************************************************)
\* a creation that inserts its record before the native create has succeeded
CommandPoolNew_Lookup_InsertFirst(t, device_key) ==
    /\ pc[t] = "idle"
    /\ EngineStep
    /\ Room("command_pool")
    /\ CanRead(t, "device")
    /\ CanWrite(t, "command_pool")
    /\ UNCHANGED <<framebuffers, pipelines, wrongOrder>>
    /\ IF Poisoned("device") \/ ~IsSome(SmGet(arenas["device"], device_key))
       THEN /\ Finish(t, Result("CommandPool::new", "Panic", "device not found",
                                NullKey, TRUE, 0, 0))
            /\ DriverIdle
            /\ UNCHANGED arenas
       ELSE LET r == [key |-> SmNextKey(arenas["command_pool"]),
                      handle |-> NoHandle, parent |-> device_key]
            IN \/ /\ DriverCreate("command_pool")
                  /\ pc' = [pc EXCEPT ![t] = "cp_insert"]
                  /\ loc' = [loc EXCEPT ![t] = [LocIdle EXCEPT !.key = device_key,
                                                               !.h = Handle("command_pool")]]
                  /\ held' = [held EXCEPT ![t] = <<Guard("device", "R")>>]
                  /\ UNCHANGED <<last, arenas>>
               \/ /\ Finish(t, Result("CommandPool::new", "Err", "Driver",
                                      NullKey, FALSE, 0, 0))
                  /\ arenas' = [arenas EXCEPT
                                   !["command_pool"] = SmInsertWithKey(@, r)]
                  /\ DriverIdle

\* a creation that lets go of the device arena's read guard after the lookup
CommandPoolNew_Lookup_DropsGuard(t, device_key) ==
    /\ pc[t] = "idle"
    /\ EngineStep
    /\ Room("command_pool")
    /\ CanRead(t, "device")
    /\ UNCHANGED <<arenas, framebuffers, pipelines, wrongOrder>>
    /\ IF Poisoned("device")
       THEN /\ Finish(t, Result("CommandPool::new", "Panic", "PoisonError",
                                NullKey, FALSE, 0, 0))
            /\ DriverIdle
       ELSE IF ~IsSome(SmGet(arenas["device"], device_key))
       THEN /\ Finish(t, Result("CommandPool::new", "Panic", "device not found",
                                NullKey, TRUE, 0, 0))
            /\ DriverIdle
       ELSE \/ /\ DriverCreate("command_pool")
               /\ pc' = [pc EXCEPT ![t] = "cp_insert"]
               /\ loc' = [loc EXCEPT ![t] = [LocIdle EXCEPT !.key = device_key,
                                                            !.h = Handle("command_pool")]]
               /\ held' = [held EXCEPT ![t] = << >>]
               /\ UNCHANGED last
            \/ /\ Finish(t, Result("CommandPool::new", "Err", "Driver",
                                   NullKey, FALSE, 0, 0))
               /\ DriverIdle

\* CommandPool::new, lines 30-32: read-lock the device arena, resolve the
\* device with expect("device not found"), then create_command_pool(..)?
CommandPoolNew_Lookup(t, device_key) ==
    /\ pc[t] = "idle"
    /\ EngineStep
    /\ Room("command_pool")
    /\ CanRead(t, "device")
    /\ UNCHANGED <<arenas, framebuffers, pipelines, wrongOrder>>
    /\ IF Poisoned("device")
       THEN /\ Finish(t, Result("CommandPool::new", "Panic", "PoisonError",
                                NullKey, FALSE, 0, 0))
            /\ DriverIdle
       ELSE IF ~IsSome(SmGet(arenas["device"], device_key))
       THEN /\ Finish(t, Result("CommandPool::new", "Panic", "device not found",
                                NullKey, TRUE, 0, 0))
            /\ DriverIdle
       ELSE \/ /\ DriverCreate("command_pool")
               /\ pc' = [pc EXCEPT ![t] = "cp_insert"]
               /\ loc' = [loc EXCEPT ![t] = [LocIdle EXCEPT !.key = device_key,
                                                            !.h = Handle("command_pool")]]
               /\ held' = [held EXCEPT ![t] = <<Guard("device", "R")>>]
               /\ UNCHANGED last
            \/ /\ Finish(t, Result("CommandPool::new", "Err", "Driver",
                                   NullKey, FALSE, 0, 0))
               /\ DriverIdle

\* an insert of a record that was built with the null key
CommandPoolNew_Insert_NullKey(t) ==
    /\ pc[t] = "cp_insert"
    /\ EngineStep
    /\ CanWrite(t, "command_pool")
    /\ DriverIdle
    /\ UNCHANGED <<framebuffers, pipelines, wrongOrder>>
    /\ IF Poisoned("command_pool")
       THEN /\ Finish(t, Result("CommandPool::new", "Panic", "PoisonError",
                                NullKey, FALSE, 1, 0))
            /\ UNCHANGED arenas
       ELSE /\ LET k == SmNextKey(arenas["command_pool"])
                   r == [key |-> NullKey, handle |-> loc[t].h, parent |-> loc[t].key]
               IN /\ arenas' = [arenas EXCEPT !["command_pool"] = SmInsertWithKey(@, r)]
                  /\ loc' = [loc EXCEPT ![t].key2 = k]
            /\ pc' = [pc EXCEPT ![t] = "cp_return"]
            /\ held' = [held EXCEPT ![t] = Append(@, Guard("command_pool", "W"))]
            /\ UNCHANGED last

\* lines 34-39: write-lock the pool arena (the device guard is still alive) and
\* insert_with_key(|key| Self { key, handle, parent_device })
CommandPoolNew_Insert(t) ==
    /\ pc[t] = "cp_insert"
    /\ EngineStep
    /\ CanWrite(t, "command_pool")
    /\ DriverIdle
    /\ UNCHANGED <<framebuffers, pipelines, wrongOrder>>
    /\ IF Poisoned("command_pool")
       THEN /\ Finish(t, Result("CommandPool::new", "Panic", "PoisonError",
                                NullKey, FALSE, 1, 0))
            /\ UNCHANGED arenas
       ELSE /\ LET k == SmNextKey(arenas["command_pool"])
                   r == [key |-> k, handle |-> loc[t].h, parent |-> loc[t].key]
               IN /\ arenas' = [arenas EXCEPT !["command_pool"] = SmInsertWithKey(@, r)]
                  /\ loc' = [loc EXCEPT ![t].key2 = k]
            /\ pc' = [pc EXCEPT ![t] = "cp_return"]
            /\ held' = [held EXCEPT ![t] = Append(@, Guard("command_pool", "W"))]
            /\ UNCHANGED last

\* line 40: Ok(key); both guards go out of scope
CommandPoolNew_Return(t) ==
    /\ pc[t] = "cp_return"
    /\ EngineStep
    /\ Finish(t, Result("CommandPool::new", "Ok", "none", loc[t].key2, FALSE, 1, 0))
    /\ DriverIdle
    /\ UNCHANGED <<arenas, framebuffers, pipelines, wrongOrder>>

\* a teardown that forgets the native destroy call
CommandPoolDrop_NoDestroy(t) ==
    /\ pc[t] = "cp_drop"
    /\ TeardownStep(loc[t].rec.val.handle)
    /\ CanRead(t, "device")
    /\ UNCHANGED <<arenas, framebuffers, pipelines, wrongOrder>>
    /\ DriverIdle
    /\ IF Poisoned("device")
       THEN Finish(t, Result("CommandPool::drop", "Panic", "PoisonError",
                             loc[t].rec.val.key, FALSE, 0, 0))
       ELSE IF ~IsSome(SmGet(arenas["device"], loc[t].rec.val.parent))
       THEN Finish(t, Result("CommandPool::drop", "Panic", "device not found",
                             loc[t].rec.val.key, TRUE, 0, 0))
       ELSE Finish(t, Result("CommandPool::drop", "Done", "none",
                             loc[t].rec.val.key, FALSE, 0, 0))

\* a teardown that also takes its parent out of the device arena
CommandPoolDrop_RemovesParent(t) ==
    /\ pc[t] = "cp_drop"
    /\ TeardownStep(loc[t].rec.val.handle)
    /\ CanRead(t, "device")
    /\ UNCHANGED <<framebuffers, pipelines, wrongOrder>>
    /\ IF Poisoned("device")
       THEN /\ Finish(t, Result("CommandPool::drop", "Panic", "PoisonError",
                                loc[t].rec.val.key, FALSE, 0, 0))
            /\ DriverIdle
            /\ UNCHANGED arenas
       ELSE IF ~IsSome(SmGet(arenas["device"], loc[t].rec.val.parent))
       THEN /\ Finish(t, Result("CommandPool::drop", "Panic", "device not found",
                                loc[t].rec.val.key, TRUE, 0, 0))
            /\ DriverIdle
            /\ UNCHANGED arenas
       ELSE /\ DriverDestroy(loc[t].rec.val.handle)
            /\ arenas' = [arenas EXCEPT !["device"] =
                              SmRemove(@, loc[t].rec.val.parent)]
            /\ Finish(t, Result("CommandPool::drop", "Done", "none",
                                loc[t].rec.val.key, FALSE, 0, 1))

\* impl Drop for CommandPool, lines 75-81: read-lock the device arena, resolve
\* the parent with expect("device not found"), destroy_command_pool
CommandPoolDrop(t) ==
    /\ pc[t] = "cp_drop"
    /\ TeardownStep(loc[t].rec.val.handle)
    /\ CanRead(t, "device")
    /\ UNCHANGED <<arenas, framebuffers, pipelines, wrongOrder>>
    /\ IF Poisoned("device")
       THEN /\ Finish(t, Result("CommandPool::drop", "Panic", "PoisonError",
                                loc[t].rec.val.key, FALSE, 0, 0))
            /\ DriverIdle
       ELSE IF ~IsSome(SmGet(arenas["device"], loc[t].rec.val.parent))
       THEN /\ Finish(t, Result("CommandPool::drop", "Panic", "device not found",
                                loc[t].rec.val.key, TRUE, 0, 0))
            /\ DriverIdle
       ELSE /\ DriverDestroy(loc[t].rec.val.handle)
            /\ Finish(t, Result("CommandPool::drop", "Done", "none",
                                loc[t].rec.val.key, FALSE, 0, 1))

(***************************************************************************)
(* PhysicalDevice (device/physical.rs).                                    *)
(***************************************************************************)
\* PhysicalDevice::new, lines 40-56: read-lock the instance arena, resolve the
\* instance with expect("instance not found"), query the device; the two
\* enumerate_* calls may fail with a driver error
PhysicalDeviceNew_Lookup(t, instance_key) ==
    /\ pc[t] = "idle"
    /\ EngineStep
    /\ Room("physical_device")
    /\ CanRead(t, "instance")
    /\ DriverIdle
    /\ UNCHANGED <<arenas, framebuffers, pipelines, wrongOrder>>
    /\ IF Poisoned("instance")
       THEN Finish(t, Result("PhysicalDevice::new", "Panic", "PoisonError",
                             NullKey, FALSE, 0, 0))
       ELSE IF ~IsSome(SmGet(arenas["instance"], instance_key))
       THEN Finish(t, Result("PhysicalDevice::new", "Panic", "instance not found",
                             NullKey, TRUE, 0, 0))
       ELSE \/ /\ pc' = [pc EXCEPT ![t] = "pd_insert"]
               /\ loc' = [loc EXCEPT ![t] = [LocIdle EXCEPT !.key = instance_key]]
               /\ held' = [held EXCEPT ![t] = <<Guard("instance", "R")>>]
               /\ UNCHANGED last
            \/ Finish(t, Result("PhysicalDevice::new", "Err", "Driver",
                                NullKey, FALSE, 0, 0))

\* lines 58-69: write-lock the physical-device arena and insert_with_key
PhysicalDeviceNew_Insert(t) ==
    /\ pc[t] = "pd_insert"
    /\ EngineStep
    /\ CanWrite(t, "physical_device")
    /\ DriverIdle
    /\ UNCHANGED <<framebuffers, pipelines, wrongOrder>>
    /\ IF Poisoned("physical_device")
       THEN /\ Finish(t, Result("PhysicalDevice::new", "Panic", "PoisonError",
                                NullKey, FALSE, 0, 0))
            /\ UNCHANGED arenas
       ELSE /\ LET k == SmNextKey(arenas["physical_device"])
                   r == [key |-> k, handle |-> NoHandle, parent |-> loc[t].key]
               IN /\ arenas' = [arenas EXCEPT !["physical_device"] = SmInsertWithKey(@, r)]
                  /\ loc' = [loc EXCEPT ![t].key2 = k]
            /\ pc' = [pc EXCEPT ![t] = "pd_return"]
            /\ held' = [held EXCEPT ![t] = Append(@, Guard("physical_device", "W"))]
            /\ UNCHANGED last

\* line 70: Ok(key)
PhysicalDeviceNew_Return(t) ==
    /\ pc[t] = "pd_return"
    /\ EngineStep
    /\ Finish(t, Result("PhysicalDevice::new", "Ok", "none", loc[t].key2, FALSE, 0, 0))
    /\ DriverIdle
    /\ UNCHANGED <<arenas, framebuffers, pipelines, wrongOrder>>

(***************************************************************************)
(* Framebuffer (framebuffer.rs): a value owned by its caller.              *)
(***************************************************************************)
\* Framebuffer::new, lines 19-28: read-lock the device arena, resolve the
\* device with ok_or_else("device not found")?, create_framebuffer(..)?
FramebufferNew(t, device_key) ==
    /\ pc[t] = "idle"
    /\ EngineStep
    /\ CanRead(t, "device")
    /\ UNCHANGED <<arenas, pipelines, wrongOrder>>
    /\ IF Poisoned("device")
       THEN /\ Finish(t, Result("Framebuffer::new", "Err", "PoisonError",
                                NullKey, FALSE, 0, 0))
            /\ DriverIdle
            /\ UNCHANGED framebuffers
       ELSE IF ~IsSome(SmGet(arenas["device"], device_key))
       THEN /\ Finish(t, Result("Framebuffer::new", "Err", "NotFound",
                                NullKey, TRUE, 0, 0))
            /\ DriverIdle
            /\ UNCHANGED framebuffers
       ELSE \/ /\ DriverCreate("framebuffer")
               /\ framebuffers' = framebuffers \cup
                      {[handle |-> Handle("framebuffer"), parent |-> device_key]}
               /\ Finish(t, Result("Framebuffer::new", "Ok", "none",
                                   NullKey, FALSE, 1, 0))
            \/ /\ Finish(t, Result("Framebuffer::new", "Err", "Driver",
                                   NullKey, FALSE, 0, 0))
               /\ DriverIdle
               /\ UNCHANGED framebuffers

\* a drop that leaves the value with its owner, to be dropped again
FramebufferDrop_KeepsValue(t, fb) ==
    /\ pc[t] = "idle"
    /\ TeardownStep(fb.handle)
    /\ fb \in framebuffers
    /\ CanRead(t, "device")
    /\ UNCHANGED <<arenas, framebuffers, pipelines, wrongOrder>>
    /\ IF Poisoned("device") \/ ~IsSome(SmGet(arenas["device"], fb.parent))
       THEN /\ Finish(t, Result("Framebuffer::drop", "Done", "none",
                                NullKey, TRUE, 0, 0))
            /\ DriverIdle
       ELSE /\ DriverDestroy(fb.handle)
            /\ Finish(t, Result("Framebuffer::drop", "Done", "none",
                                NullKey, FALSE, 0, 1))

\* impl Drop for Framebuffer, lines 41-51: return when the lock is poisoned or
\* the parent is gone, else destroy_framebuffer. The value is dropped, so it
\* is no longer owned by anyone.
FramebufferDrop(t, fb) ==
    /\ pc[t] = "idle"
    /\ TeardownStep(fb.handle)
    /\ fb \in framebuffers
    /\ CanRead(t, "device")
    /\ framebuffers' = framebuffers \ {fb}
    /\ UNCHANGED <<arenas, pipelines, wrongOrder>>
    /\ IF Poisoned("device")
       THEN /\ Finish(t, Result("Framebuffer::drop", "Done", "PoisonError",
                                NullKey, FALSE, 0, 0))
            /\ DriverIdle
       ELSE IF ~IsSome(SmGet(arenas["device"], fb.parent))
       THEN /\ Finish(t, Result("Framebuffer::drop", "Done", "none",
                                NullKey, TRUE, 0, 0))
            /\ DriverIdle
       ELSE /\ DriverDestroy(fb.handle)
            /\ Finish(t, Result("Framebuffer::drop", "Done", "none",
                                NullKey, FALSE, 0, 1))

(***************************************************************************)
(* GraphicsPipeline (pipeline/mod.rs): a value owned by its caller, with   *)
(* a render-pass parent and a pipeline-layout parent.                      *)
(***************************************************************************)
PipelineKeyArgs == {NullKey, Key(1, 1)}

\* GraphicsPipeline::new, lines 41-44: read-lock the layout arena and resolve
\* the layout, ok_or_else("pipeline layout not found")?
GraphicsPipelineNew_Layout(t, key, render_pass_key, pipeline_layout_key) ==
    /\ pc[t] = "idle"
    /\ EngineStep
    /\ CanRead(t, "pipeline_layout")
    /\ DriverIdle
    /\ UNCHANGED <<arenas, framebuffers, pipelines, wrongOrder>>
    /\ IF Poisoned("pipeline_layout")
       THEN Finish(t, Result("GraphicsPipeline::new", "Err", "PoisonError",
                             NullKey, FALSE, 0, 0))
       ELSE IF ~IsSome(SmGet(arenas["pipeline_layout"], pipeline_layout_key))
       THEN Finish(t, Result("GraphicsPipeline::new", "Err", "NotFound",
                             NullKey, TRUE, 0, 0))
       ELSE /\ pc' = [pc EXCEPT ![t] = "gp_render_pass"]
            /\ loc' = [loc EXCEPT ![t] = [LocIdle EXCEPT !.self = key,
                                                         !.key = render_pass_key,
                                                         !.key2 = pipeline_layout_key]]
            /\ held' = [held EXCEPT ![t] = <<Guard("pipeline_layout", "R")>>]
            /\ UNCHANGED last

\* lines 46-49: read-lock the render-pass arena and resolve the render pass
GraphicsPipelineNew_RenderPass(t) ==
    /\ pc[t] = "gp_render_pass"
    /\ EngineStep
    /\ CanRead(t, "render_pass")
    /\ DriverIdle
    /\ UNCHANGED <<arenas, framebuffers, pipelines, wrongOrder>>
    /\ IF Poisoned("render_pass")
       THEN Finish(t, Result("GraphicsPipeline::new", "Err", "PoisonError",
                             NullKey, FALSE, 0, 0))
       ELSE IF ~IsSome(SmGet(arenas["render_pass"], loc[t].key))
       THEN Finish(t, Result("GraphicsPipeline::new", "Err", "NotFound",
                             NullKey, TRUE, 0, 0))
       ELSE /\ pc' = [pc EXCEPT ![t] = "gp_swapchain"]
            /\ held' = [held EXCEPT ![t] = Append(@, Guard("render_pass", "R"))]
            /\ UNCHANGED <<loc, last>>

\* the ancestry check left out: the call goes on to the device
GraphicsPipelineNew_Swapchain_NoCheck(t) ==
    /\ pc[t] = "gp_swapchain"
    /\ EngineStep
    /\ CanRead(t, "swapchain")
    /\ DriverIdle
    /\ UNCHANGED <<arenas, framebuffers, pipelines, wrongOrder>>
    /\ LET render_pass == SmGet(arenas["render_pass"], loc[t].key).val
           pipeline_layout == SmGet(arenas["pipeline_layout"], loc[t].key2).val
           swapchain == SmGet(arenas["swapchain"], render_pass.parent)
       IN IF Poisoned("swapchain")
          THEN Finish(t, Result("GraphicsPipeline::new", "Err", "PoisonError",
                                NullKey, FALSE, 0, 0))
          ELSE IF ~IsSome(swapchain)
          THEN Finish(t, Result("GraphicsPipeline::new", "Err", "NotFound",
                                NullKey, TRUE, 0, 0))
          ELSE /\ pc' = [pc EXCEPT ![t] = "gp_device"]
               /\ loc' = [loc EXCEPT ![t].diff =
                              (swapchain.val.parent # pipeline_layout.parent)]
               /\ held' = [held EXCEPT ![t] = Append(@, Guard("swapchain", "R"))]
               /\ UNCHANGED last

\* lines 51-64: read-lock the swapchain arena, resolve the render pass's
\* swapchain, and compare its device with the layout's device
GraphicsPipelineNew_Swapchain(t) ==
    /\ pc[t] = "gp_swapchain"
    /\ EngineStep
    /\ CanRead(t, "swapchain")
    /\ DriverIdle
    /\ UNCHANGED <<arenas, framebuffers, pipelines, wrongOrder>>
    /\ LET render_pass == SmGet(arenas["render_pass"], loc[t].key).val
           pipeline_layout == SmGet(arenas["pipeline_layout"], loc[t].key2).val
           swapchain == SmGet(arenas["swapchain"], render_pass.parent)
       IN IF Poisoned("swapchain")
          THEN Finish(t, Result("GraphicsPipeline::new", "Err", "PoisonError",
                                NullKey, FALSE, 0, 0))
          ELSE IF ~IsSome(swapchain)
          THEN Finish(t, Result("GraphicsPipeline::new", "Err", "NotFound",
                                NullKey, TRUE, 0, 0))
          ELSE IF swapchain.val.parent # pipeline_layout.parent
          THEN Finish(t, [Result("GraphicsPipeline::new", "Err", "IncompatibleAncestry",
                                 NullKey, FALSE, 0, 0) EXCEPT !.diff = TRUE])
          ELSE /\ pc' = [pc EXCEPT ![t] = "gp_device"]
               /\ held' = [held EXCEPT ![t] = Append(@, Guard("swapchain", "R"))]
               /\ UNCHANGED <<loc, last>>

\* shader modules that are never dropped
PipelineOutcome_KeepShaders(t, status, kind, n, d, rejected) ==
    /\ Finish(t, [Result("GraphicsPipeline::new", status, kind, loc[t].self,
                         FALSE, n, d) EXCEPT !.diff = loc[t].diff,
                                             !.rejected = rejected])
    /\ nextHandle' = nextHandle + n
    /\ UNCHANGED <<nativeDead, destroyCalls>>

\* what the call leaves behind when it ends after n native creates, d of them
\* shader modules that were dropped again
PipelineOutcome(t, status, kind, n, d, rejected) ==
    /\ Finish(t, [Result("GraphicsPipeline::new", status, kind, loc[t].self,
                         FALSE, n, d) EXCEPT !.diff = loc[t].diff,
                                             !.rejected = rejected])
    /\ nextHandle' = nextHandle + n
    /\ nativeDead' = nativeDead \cup
          {[id |-> nextHandle + i, kind |-> "shader_module"] : i \in 0..(d - 1)}
    /\ destroyCalls' = destroyCalls (+) SetToBag(
          {[id |-> nextHandle + i, kind |-> "shader_module"] : i \in 0..(d - 1)})

\* lines 65-170: read-lock the device arena and resolve the device; create the
\* vertex and the fragment shader module (transient values, dropped when the
\* call ends); create_graphics_pipelines, whose error (lines 156-163: the
\* driver's rejection, or a result without a pipeline) is replaced by
\* "graphics pipeline was not created"; Ok(Self { key, handle, .. })
GraphicsPipelineNew_Device(t) ==
    /\ pc[t] = "gp_device"
    /\ EngineStep
    /\ CanRead(t, "device")
    /\ UNCHANGED <<arenas, framebuffers, wrongOrder>>
    /\ LET render_pass == SmGet(arenas["render_pass"], loc[t].key).val
           swapchain == SmGet(arenas["swapchain"], render_pass.parent).val
       IN IF Poisoned("device")
          THEN /\ Finish(t, [Result("GraphicsPipeline::new", "Err", "PoisonError",
                                    NullKey, FALSE, 0, 0) EXCEPT !.diff = loc[t].diff])
               /\ DriverIdle
               /\ UNCHANGED pipelines
          ELSE IF ~IsSome(SmGet(arenas["device"], swapchain.parent))
          THEN /\ Finish(t, [Result("GraphicsPipeline::new", "Err", "NotFound",
                                    NullKey, TRUE, 0, 0) EXCEPT !.diff = loc[t].diff])
               /\ DriverIdle
               /\ UNCHANGED pipelines
          ELSE \/ /\ PipelineOutcome(t, "Err", "Driver", 0, 0, TRUE)
                  /\ UNCHANGED <<nativeLive, pipelines>>
               \/ /\ nextHandle + 0 <= MaxHandles
                  /\ PipelineOutcome(t, "Err", "Driver", 1, 1, TRUE)
                  /\ UNCHANGED <<nativeLive, pipelines>>
               \/ /\ nextHandle + 1 <= MaxHandles
                  /\ \E rejected \in BOOLEAN :
                        PipelineOutcome(t, "Err", "NotCreated", 2, 2, rejected)
                  /\ UNCHANGED <<nativeLive, pipelines>>
               \/ /\ nextHandle + 2 <= MaxHandles
                  /\ PipelineOutcome(t, "Ok", "none", 3, 2, FALSE)
                  /\ LET handle == [id |-> nextHandle + 2, kind |-> "pipeline"]
                     IN /\ nativeLive' = nativeLive \cup {handle}
                        /\ pipelines' = pipelines \cup
                              {[key |-> loc[t].self, handle |-> handle,
                                parent_render_pass |-> loc[t].key,
                                parent_pipeline_layout |-> loc[t].key2]}

\* impl Drop for GraphicsPipeline, lines 187-194: read-lock the render-pass
\* arena; return when the render pass is gone
PipelineDrop_RenderPass(t, p) ==
    /\ pc[t] = "idle"
    /\ TeardownStep(p.handle)
    /\ p \in pipelines
    /\ CanRead(t, "render_pass")
    /\ pipelines' = pipelines \ {p}
    /\ DriverIdle
    /\ UNCHANGED <<arenas, framebuffers, wrongOrder>>
    /\ IF Poisoned("render_pass")
       THEN Finish(t, Result("GraphicsPipeline::drop", "Done", "PoisonError",
                             p.key, FALSE, 0, 0))
       ELSE IF ~IsSome(SmGet(arenas["render_pass"], p.parent_render_pass))
       THEN Finish(t, Result("GraphicsPipeline::drop", "Done", "none",
                             p.key, TRUE, 0, 0))
       ELSE /\ pc' = [pc EXCEPT ![t] = "gp_drop_swapchain"]
            /\ loc' = [loc EXCEPT ![t] = [LocIdle EXCEPT !.rec = Some(p)]]
            /\ held' = [held EXCEPT ![t] = <<Guard("render_pass", "R")>>]
            /\ UNCHANGED last

\* lines 196-203: read-lock the swapchain arena; return when the swapchain is gone
PipelineDrop_Swapchain(t) ==
    /\ pc[t] = "gp_drop_swapchain"
    /\ EngineStep
    /\ CanRead(t, "swapchain")
    /\ DriverIdle
    /\ UNCHANGED <<arenas, framebuffers, pipelines, wrongOrder>>
    /\ LET p == loc[t].rec.val
           render_pass == SmGet(arenas["render_pass"], p.parent_render_pass).val
       IN IF Poisoned("swapchain")
          THEN Finish(t, Result("GraphicsPipeline::drop", "Done", "PoisonError",
                                p.key, FALSE, 0, 0))
          ELSE IF ~IsSome(SmGet(arenas["swapchain"], render_pass.parent))
          THEN Finish(t, Result("GraphicsPipeline::drop", "Done", "none",
                                p.key, TRUE, 0, 0))
          ELSE /\ pc' = [pc EXCEPT ![t] = "gp_drop_device"]
               /\ held' = [held EXCEPT ![t] = Append(@, Guard("swapchain", "R"))]
               /\ UNCHANGED <<loc, last>>

\* lines 205-213: read-lock the device arena; return when the device is gone,
\* else destroy_pipeline
PipelineDrop_Device(t) ==
    /\ pc[t] = "gp_drop_device"
    /\ EngineStep
    /\ CanRead(t, "device")
    /\ UNCHANGED <<arenas, framebuffers, pipelines, wrongOrder>>
    /\ LET p == loc[t].rec.val
           render_pass == SmGet(arenas["render_pass"], p.parent_render_pass).val
           swapchain == SmGet(arenas["swapchain"], render_pass.parent).val
       IN IF Poisoned("device")
          THEN /\ Finish(t, Result("GraphicsPipeline::drop", "Done", "PoisonError",
                                   p.key, FALSE, 0, 0))
               /\ DriverIdle
          ELSE IF ~IsSome(SmGet(arenas["device"], swapchain.parent))
          THEN /\ Finish(t, Result("GraphicsPipeline::drop", "Done", "none",
                                   p.key, TRUE, 0, 0))
               /\ DriverIdle
          ELSE /\ DriverDestroy(p.handle)
               /\ Finish(t, Result("GraphicsPipeline::drop", "Done", "none",
                                   p.key, FALSE, 0, 1))

(***************************************************************************)
(* The resource types whose modules are not among the sources (instance,   *)
(* device, swapchain, render pass, pipeline layout), by the generalized    *)
(* creation and teardown protocols, and the release of a record.           *)
(***************************************************************************)
\* creation protocol: resolve the parent (NotFound when missing), native
\* create, insert the record under the arena's write lock
RecordNew(t, a, parent_key) ==
    /\ pc[t] = "idle"
    /\ EngineStep
    /\ CanWrite(t, a)
    /\ ParentArena(a) # "none" => CanRead(t, ParentArena(a))
    /\ UNCHANGED <<framebuffers, pipelines, wrongOrder>>
    /\ IF ParentArena(a) # "none" /\ ~IsSome(SmGet(arenas[ParentArena(a)], parent_key))
       THEN /\ Finish(t, Result(a, "Err", "NotFound", NullKey, TRUE, 0, 0))
            /\ DriverIdle
            /\ UNCHANGED arenas
       ELSE /\ Room(a)
            /\ DriverCreate(a)
            /\ LET k == SmNextKey(arenas[a])
                   r == [key |-> k, handle |-> Handle(a), parent |-> parent_key]
               IN /\ arenas' = [arenas EXCEPT ![a] = SmInsertWithKey(@, r)]
                  /\ Finish(t, Result(a, "Ok", "none", k, FALSE, 1, 0))

\* whether the record under key k of arena a still has something that depends on it
HasDependants(a, k) ==
    \/ \E c \in ArenaNames :
          ParentArena(c) = a /\ \E r \in SmRecords(arenas[c]) : r.parent = k
    \/ a = "device" /\ \E fb \in framebuffers : fb.parent = k
    \/ a = "device" /\ \E t \in Threads :
          pc[t] = "cp_drop" /\ loc[t].rec.val.parent = k
    \/ a = "render_pass" /\ \E p \in pipelines : p.parent_render_pass = k
    \/ a = "pipeline_layout" /\ \E p \in pipelines : p.parent_pipeline_layout = k

\* release of a command pool: remove(key) under the pool arena's write lock;
\* the record that comes back is then dropped
ReleaseCommandPool(t, k) ==
    /\ pc[t] = "idle"
    /\ EngineStep
    /\ k \in SmKeys(arenas["command_pool"])
    /\ SmCanRemove(arenas["command_pool"], k)
    /\ CanWrite(t, "command_pool")
    /\ arenas' = [arenas EXCEPT !["command_pool"] = SmRemove(@, k)]
    /\ pc' = [pc EXCEPT ![t] = "cp_drop"]
    /\ loc' = [loc EXCEPT ![t] = [LocIdle EXCEPT !.rec = SmGet(arenas["command_pool"], k)]]
    /\ DriverIdle
    /\ UNCHANGED <<held, last, framebuffers, pipelines, wrongOrder>>

\* release of a record of another arena: remove(key), then the teardown
\* protocol: resolve the parent for the destroy call, a no-op when it is gone.
\* PhysicalDevice has no Drop and owns no native object.
ReleaseRecord(t, a, k) ==
    /\ pc[t] = "idle"
    /\ k \in SmKeys(arenas[a])
    /\ IF a = "physical_device" THEN EngineStep
       ELSE TeardownStep(SmGet(arenas[a], k).val.handle)
    /\ SmCanRemove(arenas[a], k)
    /\ CanWrite(t, a)
    /\ ParentArena(a) # "none" => CanRead(t, ParentArena(a))
    /\ arenas' = [arenas EXCEPT ![a] = SmRemove(@, k)]
    /\ wrongOrder' = (wrongOrder \/ HasDependants(a, k))
    /\ UNCHANGED <<framebuffers, pipelines>>
    /\ LET r == SmGet(arenas[a], k).val
           parentOk == ParentArena(a) = "none"
                       \/ IsSome(SmGet(arenas[ParentArena(a)], r.parent))
       IN IF a = "physical_device" \/ ~parentOk
          THEN /\ Finish(t, Result(a, "Done", "none", k, ~parentOk, 0, 0))
               /\ DriverIdle
          ELSE /\ DriverDestroy(r.handle)
               /\ Finish(t, Result(a, "Done", "none", k, FALSE, 0, 1))

\* the owner of a pipeline stores it in the pipeline arena (no such call is in
\* the sources at hand): the value goes into the next slot as it is, with the
\* key field GraphicsPipeline::new gave it
PipelineStore(t, p) ==
    /\ pc[t] = "idle"
    /\ EngineStep
    /\ CanWrite(t, "pipeline")
    /\ SmCanInsert(arenas["pipeline"])
    /\ DriverIdle
    /\ arenas' = [arenas EXCEPT !["pipeline"] =
                      SmInsertWithKey(@, [key |-> p.key, handle |-> p.handle,
                                          parent |-> p.parent_render_pass,
                                          parent_pipeline_layout |->
                                              p.parent_pipeline_layout])]
    /\ pipelines' = pipelines \ {p}
    /\ UNCHANGED <<pc, loc, held, last, framebuffers, wrongOrder>>

\* selection not running
SelectIdle ==
    /\ cands = << >>
    /\ required = << >>
    /\ build = "release"
    /\ sel = [phase |-> "idle"]

(***************************************************************************)
(* Spec: instance -> physical device -> device -> {command pool,           *)
(* framebuffer}, created and torn down by concurrent threads.              *)
(***************************************************************************)
Init == EngineInit /\ ArenaInit /\ SelectIdle /\ AppIdle

Next ==
    \E t \in Threads :
        \/ RecordNew(t, "instance", NullKey)
        \/ \E k \in ArgKeys("instance") : PhysicalDeviceNew_Lookup(t, k)
        \/ PhysicalDeviceNew_Insert(t)
        \/ PhysicalDeviceNew_Return(t)
        \/ \E k \in ArgKeys("physical_device") : RecordNew(t, "device", k)
        \/ \E k \in ArgKeys("device") : CommandPoolNew_Lookup(t, k)
        \/ CommandPoolNew_Insert(t)
        \/ CommandPoolNew_Return(t)
        \/ \E k \in ArgKeys("device") : FramebufferNew(t, k)
        \/ \E fb \in framebuffers : FramebufferDrop(t, fb)
        \/ \E k \in ArgKeys("command_pool") : ReleaseCommandPool(t, k)
        \/ CommandPoolDrop(t)
        \/ \E a \in {"instance", "physical_device", "device"} :
              \E k \in ArgKeys(a) : ReleaseRecord(t, a, k)

Spec == Init /\ [][Next]_vars

(***************************************************************************)
(* SpecArena: one arena under inserts, removes and lookups of two threads. *)
(***************************************************************************)
SpecArena == Init /\ [][ArenaNext]_vars

(***************************************************************************)
(* SpecPipeline: pipelines over the arenas an engine start-up has filled:  *)
(* one instance, one physical device, two devices, and a swapchain, a      *)
(* render pass and a pipeline layout on either device.                     *)
(***************************************************************************)
StartHandle(n, kind) == [id |-> 0 - n, kind |-> kind]
StartRecord(i, n, kind, parent) ==
    [version |-> 1,
     value |-> [key |-> Key(i, 1), handle |-> StartHandle(n, kind), parent |-> parent]]
StartArena(slots) == [slots |-> slots, free |-> << >>]

InitPipeline ==
    /\ ArenaInit /\ SelectIdle /\ AppIdle /\ HistoryInit
    /\ \E scDevice \in {Key(1, 1), Key(2, 1)}, layoutDevice \in {Key(1, 1), Key(2, 1)} :
          arenas = [a \in ArenaNames |->
              CASE a = "instance" ->
                     StartArena(<<StartRecord(1, 1, "instance", NullKey)>>)
                [] a = "physical_device" ->
                     StartArena(<<[version |-> 1,
                                   value |-> [key |-> Key(1, 1), handle |-> NoHandle,
                                              parent |-> Key(1, 1)]]>>)
                [] a = "device" ->
                     StartArena(<<StartRecord(1, 2, "device", Key(1, 1)),
                                  StartRecord(2, 3, "device", Key(1, 1))>>)
                [] a = "swapchain" ->
                     StartArena(<<StartRecord(1, 4, "swapchain", scDevice)>>)
                [] a = "render_pass" ->
                     StartArena(<<StartRecord(1, 5, "render_pass", Key(1, 1))>>)
                [] a = "pipeline_layout" ->
                     StartArena(<<StartRecord(1, 6, "pipeline_layout", layoutDevice)>>)
                [] OTHER -> EmptySlotMap]
    /\ held = [t \in Threads |-> << >>]
    /\ pc = [t \in Threads |-> "idle"]
    /\ loc = [t \in Threads |-> LocIdle]
    /\ last = ResNone
    /\ nativeLive = {StartHandle(1, "instance"), StartHandle(2, "device"),
                     StartHandle(3, "device"), StartHandle(4, "swapchain"),
                     StartHandle(5, "render_pass"), StartHandle(6, "pipeline_layout")}
    /\ nativeDead = {}
    /\ nextHandle = 1
    /\ framebuffers = {}
    /\ pipelines = {}
    /\ wrongOrder = FALSE

NextPipeline ==
    \E t \in Threads :
        \/ \E key \in PipelineKeyArgs, rp \in ArgKeys("render_pass"),
              layout \in ArgKeys("pipeline_layout") :
              GraphicsPipelineNew_Layout(t, key, rp, layout)
        \/ GraphicsPipelineNew_RenderPass(t)
        \/ GraphicsPipelineNew_Swapchain(t)
        \/ GraphicsPipelineNew_Device(t)
        \/ \E p \in pipelines : PipelineDrop_RenderPass(t, p)
        \/ PipelineDrop_Swapchain(t)
        \/ PipelineDrop_Device(t)
        \/ \E a \in {"device", "swapchain", "render_pass", "pipeline_layout"} :
              \E k \in ArgKeys(a) : ReleaseRecord(t, a, k)

SpecPipeline == InitPipeline /\ [][NextPipeline]_vars

(***************************************************************************)
(* SpecPoison: creations and teardowns of command pools, framebuffers and  *)
(* pipelines while writers of the parent arenas may panic.                 *)
(***************************************************************************)
\* a thread panics while it holds the write guard of arena a (in code other
\* than the operations above): the guard is dropped and the lock is poisoned
PoisonArena(t, a) ==
    /\ pc[t] = "idle"
    /\ CanWrite(t, a)
    /\ ~Poisoned(a)
    /\ poisoned' = poisoned \cup {a}
    /\ UNCHANGED <<engineVars, arenaVars, selectVars, torn, destroyCalls, appVars>>

\* one thread creates and tears down, the other one is the panicking writer
NextPoison ==
    \E t \in {"t1"}, w \in {"t2"} :
        \/ \E a \in {"device", "swapchain", "render_pass"} : PoisonArena(w, a)
        \/ \E k \in SmKeys(arenas["device"]) : CommandPoolNew_Lookup(t, k)
        \/ CommandPoolNew_Insert(t)
        \/ CommandPoolNew_Return(t)
        \/ \E k \in SmKeys(arenas["command_pool"]) : ReleaseCommandPool(t, k)
        \/ CommandPoolDrop(t)
        \/ \E k \in SmKeys(arenas["device"]) : FramebufferNew(t, k)
        \/ \E fb \in framebuffers : FramebufferDrop(t, fb)
        \/ \E rp \in SmKeys(arenas["render_pass"]),
              layout \in SmKeys(arenas["pipeline_layout"]) :
              GraphicsPipelineNew_Layout(t, NullKey, rp, layout)
        \/ GraphicsPipelineNew_RenderPass(t)
        \/ GraphicsPipelineNew_Swapchain(t)
        \/ GraphicsPipelineNew_Device(t)
        \/ \E p \in pipelines : PipelineDrop_RenderPass(t, p)
        \/ PipelineDrop_Swapchain(t)
        \/ PipelineDrop_Device(t)

SpecPoison == InitPipeline /\ [][NextPoison]_vars

(***************************************************************************)
(* SpecKeys: one thread fills and empties the arenas whose records carry   *)
(* their own key: command pools, physical devices, and pipelines built     *)
(* from a key of the caller's choice and then stored.                      *)
(***************************************************************************)
NextKeys ==
    \E t \in {"t1"} :
        \/ \E k \in SmKeys(arenas["device"]) : CommandPoolNew_Lookup(t, k)
        \/ CommandPoolNew_Insert(t)
        \/ CommandPoolNew_Return(t)
        \/ \E k \in SmKeys(arenas["command_pool"]) : ReleaseCommandPool(t, k)
        \/ CommandPoolDrop(t)
        \/ \E k \in SmKeys(arenas["instance"]) : PhysicalDeviceNew_Lookup(t, k)
        \/ PhysicalDeviceNew_Insert(t)
        \/ PhysicalDeviceNew_Return(t)
        \/ \E k \in SmKeys(arenas["physical_device"]) :
              ReleaseRecord(t, "physical_device", k)
        \/ \E key \in PipelineKeyArgs, rp \in SmKeys(arenas["render_pass"]),
              layout \in SmKeys(arenas["pipeline_layout"]) :
              GraphicsPipelineNew_Layout(t, key, rp, layout)
        \/ GraphicsPipelineNew_RenderPass(t)
        \/ GraphicsPipelineNew_Swapchain(t)
        \/ GraphicsPipelineNew_Device(t)
        \/ \E p \in pipelines : PipelineStore(t, p)

SpecKeys == InitPipeline /\ [][NextKeys]_vars

(***************************************************************************)
(* SpecTeardown: one thread creates and drops command pools, framebuffers  *)
(* and pipelines; the other one releases the first record of a parent      *)
(* arena, or panics once while it holds the write guard of one.            *)
(***************************************************************************)
NextTeardown ==
    \E t \in {"t1"}, w \in {"t2"} :
        \/ \E k \in SmKeys(arenas["device"]) : CommandPoolNew_Lookup(t, k)
        \/ CommandPoolNew_Insert(t)
        \/ CommandPoolNew_Return(t)
        \/ \E k \in SmKeys(arenas["command_pool"]) : ReleaseCommandPool(t, k)
        \/ CommandPoolDrop(t)
        \/ \E k \in SmKeys(arenas["device"]) : FramebufferNew(t, k)
        \/ \E fb \in framebuffers : FramebufferDrop(t, fb)
        \/ \E rp \in SmKeys(arenas["render_pass"]),
              layout \in SmKeys(arenas["pipeline_layout"]) :
              GraphicsPipelineNew_Layout(t, NullKey, rp, layout)
        \/ GraphicsPipelineNew_RenderPass(t)
        \/ GraphicsPipelineNew_Swapchain(t)
        \/ GraphicsPipelineNew_Device(t)
        \/ \E p \in pipelines : PipelineDrop_RenderPass(t, p)
        \/ PipelineDrop_Swapchain(t)
        \/ PipelineDrop_Device(t)
        \/ /\ poisoned = {}
           /\ \E a \in {"device", "swapchain", "render_pass"} : PoisonArena(w, a)
        \/ /\ poisoned = {}
           /\ \E a \in {"device", "swapchain", "render_pass"} :
                 ReleaseRecord(w, a, Key(1, 1))

SpecTeardown == InitPipeline /\ [][NextTeardown]_vars

(***************************************************************************)
(* Physical-device selection: PhysicalDevice::is_suitable and ::score      *)
(* (device/physical.rs) and Renderer::new (src/graphics/mod.rs).           *)
(***************************************************************************)
U32(hi, lo) == [hi |-> hi, lo |-> lo]
\* u32 addition: the wrapped sum, and whether it overflowed
U32Add(a, b) ==
    LET lo == a.lo + b.lo
        hi == a.hi + b.hi + (lo \div Limb)
    IN [val |-> U32(hi % Limb, lo % Limb), overflow |-> hi >= Limb]
U32LessEq(a, b) == a.hi < b.hi \/ (a.hi = b.hi /\ a.lo <= b.lo)

\* queue_family_properties_with(GRAPHICS): the families whose flags contain it
GraphicsFamilies(d) ==
    {i \in 1..Len(d.queues) : "GRAPHICS" \in d.queues[i]}

\* Iterator::find on what is left of the extension-name iterator: the first
\* position at or after `pos` that holds `name`, else 0
FindFrom(exts, pos, name) ==
    LET hits == {j \in pos..Len(exts) : exts[j] = name}
    IN IF hits = {} THEN 0 ELSE CHOOSE j \in hits : \A h \in hits : j <= h

\* REQUIRED_EXTENSIONS.iter().any(|required_name| names.find(..).is_some()),
\* lines 85-95: `names` is one iterator shared by all the finds, so each find
\* goes on where the one before stopped, and a find that misses exhausts it
RECURSIVE AnyRequiredFound(_, _, _, _)
AnyRequiredFound(req, i, exts, pos) ==
    IF i > Len(req) THEN FALSE
    ELSE IF FindFrom(exts, pos, req[i]) # 0 THEN TRUE
    ELSE AnyRequiredFound(req, i + 1, exts, Len(exts) + 1)

\* PhysicalDevice::is_suitable, lines 81-97
IsSuitable(d, req) ==
    GraphicsFamilies(d) # {} /\ AnyRequiredFound(req, 1, d.exts, 1)

ClassBonus(d) ==
    CASE d.device_type = "DISCRETE_GPU" -> DiscreteBonus
      [] d.device_type = "INTEGRATED_GPU" -> IntegratedBonus
      [] OTHER -> 0

\* a ranking in which the device class alone decides
Score_ClassOnly(d) == U32Add(U32(0, ClassBonus(d)), U32(0, 0))

\* a ranking by the image dimension alone
Score_NoBonus(d) == U32Add(U32(0, 0), d.max_image_dimension2_d)

\* PhysicalDevice::score, lines 99-107: score += max_image_dimension2_d
Score(d) == U32Add(U32(0, ClassBonus(d)), d.max_image_dimension2_d)

\* the permutations of 1..n
Perms(n) == {f \in [1..n -> 1..n] : \A i, j \in 1..n : i # j => f[i] # f[j]}
\* .filter(|item| item.is_suitable()).collect(): the suitable ones, in order
FilterSuitable(seq, req) ==
    LET F[i \in 0..Len(seq)] ==
            IF i = 0 THEN << >>
            ELSE IF IsSuitable(seq[i], req) THEN Append(F[i - 1], seq[i]) ELSE F[i - 1]
    IN F[Len(seq)]
Reverse(seq) == [i \in 1..Len(seq) |-> seq[Len(seq) + 1 - i]]
\* the outcomes of sort_unstable by Ord (cmp compares the scores)
Sorted(seq) ==
    {[i \in 1..Len(seq) |-> seq[f[i]]] : f \in
        {g \in Perms(Len(seq)) : \A i, j \in 1..Len(seq) :
            i < j => U32LessEq(Score(seq[g[i]]).val, Score(seq[g[j]]).val)}}

SelectStep ==
    UNCHANGED <<arenas, held, pc, loc, last, nativeLive, nativeDead, nextHandle,
                framebuffers, pipelines, wrongOrder, sm, smIssued, smRemoved, smLast,
                historyVars, appVars>>

\* struct Renderer, lines 13-17: the fields in declaration order, which is
\* the order in which a dropped Renderer drops them
RendererFields_InstanceFirst == <<"instance", "physical_devices", "device">>
RendererFields == <<"device", "physical_devices", "instance">>
\* the locals of Renderer::new in declaration order (lines 23, 28, 46); a
\* return or a panic drops the ones alive in the reverse of this order
NewLocals == <<"instance", "physical_devices", "device">>

\* the teardowns the drop of one value runs: a Vec drops its n elements
DropOf(name, n) ==
    IF name = "physical_devices" THEN [i \in 1..n |-> "physical_device"]
    ELSE <<name>>
RECURSIVE DropAll(_, _)
DropAll(names, n) ==
    IF names = << >> THEN << >>
    ELSE DropOf(Head(names), n) \o DropAll(Tail(names), n)
\* leaving Renderer::new with the first `alive` locals initialized
DropLocals(alive, n) == DropAll(Reverse(SubSeq(NewLocals, 1, alive)), n)

\* the outcome of Renderer::new, the devices it ranked, the device passed to
\* Device::new, and the teardowns it ran before it returned
SelDone(status, kind, ranked, best, new_drops) ==
    [phase |-> "done", status |-> status, kind |-> kind, ranked |-> ranked,
     device_new |-> best, new_drops |-> new_drops, drops |-> << >>]

\* the ranking kept in ascending order: reverse() left out
RendererNew_NoReverse ==
    /\ sel.phase = "start"
    /\ SelectStep
    /\ UNCHANGED <<cands, required, build>>
    /\ LET physical_devices == FilterSuitable(cands, required)
       IN IF physical_devices = << >>
          THEN sel' = SelDone("Err", "NoSuitable", << >>, None, << >>)
          ELSE \E sorted \in Sorted(physical_devices) :
                  sel' = SelDone("Ok", "none", sorted, Some(sorted[1]), << >>)

\* Renderer::new, lines 23-52: Instance::new(config)?; enumerate the devices
\* (?) and keep the suitable ones, the others are dropped by the filter; none
\* left is an error; sort_unstable, reverse, and Device::new on the first. A
\* score that overflows panics in a build with overflow checks as soon as the
\* sort compares it (any sort of two or more). Every way out but Ok drops the
\* locals alive at that point.
RendererNew ==
    /\ sel.phase = "start"
    /\ SelectStep
    /\ UNCHANGED <<cands, required, build>>
    /\ LET physical_devices == FilterSuitable(cands, required)
           n == Len(physical_devices)
           filtered == DropOf("physical_devices", Len(cands) - n)
       IN \/ sel' = SelDone("Err", "Instance", << >>, None, DropLocals(0, 0))
          \/ sel' = SelDone("Err", "Enumerate", << >>, None, DropLocals(1, 0))
          \/ IF physical_devices = << >>
             THEN sel' = SelDone("Err", "NoSuitable", << >>, None,
                                 filtered \o DropLocals(2, n))
             ELSE IF /\ build = "debug" /\ Len(physical_devices) >= 2
                     /\ \E i \in 1..Len(physical_devices) :
                           Score(physical_devices[i]).overflow
             THEN sel' = SelDone("Panic", "overflow", << >>, None,
                                 filtered \o DropLocals(2, n))
             ELSE \E sorted \in Sorted(physical_devices) :
                     LET ranked == Reverse(sorted)
                     IN \/ sel' = SelDone("Ok", "none", ranked, Some(ranked[1]),
                                          filtered)
                        \/ sel' = SelDone("Err", "Device", ranked, Some(ranked[1]),
                                          filtered \o DropLocals(2, n))

\* the Renderer that new returned is dropped: its fields are dropped in
\* declaration order
RendererDrop ==
    /\ sel.phase = "done"
    /\ sel.status = "Ok"
    /\ SelectStep
    /\ UNCHANGED <<cands, required, build>>
    /\ sel' = [sel EXCEPT !.phase = "dropped",
                          !.drops = DropAll(RendererFields, Len(sel.ranked))]

GraphicsQueues == <<{"GRAPHICS", "COMPUTE"}>>
SwapchainExt == <<"VK_KHR_swapchain">>
Dimensions == {U32(0, 4096), U32(0, 8192), U32(Limb - 1, Limb - 1)}
DeviceTypes == {"DISCRETE_GPU", "INTEGRATED_GPU", "OTHER"}
\* the devices an enumeration may return
Candidates ==
    [device_type : DeviceTypes, max_image_dimension2_d : Dimensions,
     queues : {GraphicsQueues, <<{"TRANSFER"}>>}, exts : {SwapchainExt}]

InitSelect ==
    /\ EngineInit /\ ArenaInit /\ AppIdle
    /\ cands \in UNION {[1..n -> Candidates] : n \in 0..MaxCands}
    /\ required = SwapchainExt
    /\ build \in {"debug", "release"}
    /\ sel = [phase |-> "start"]

NextSelect ==
    \/ RendererNew
    \/ RendererDrop

SpecSelect == InitSelect /\ [][NextSelect]_vars

(***************************************************************************)
(* SpecSuitable: is_suitable over queue families, extension lists and      *)
(* required-extension lists (REQUIRED_EXTENSIONS is defined outside the    *)
(* sources at hand; it is an input here).                                  *)
(***************************************************************************)
SeqsUpTo(S, n) == UNION {[1..k -> S] : k \in 0..n}
QueueLists == {<< >>, <<{"TRANSFER"}>>, <<{"GRAPHICS"}>>,
               <<{"COMPUTE"}, {"GRAPHICS", "COMPUTE"}>>}

InitSuitable ==
    /\ EngineInit /\ ArenaInit /\ AppIdle
    /\ \E q \in QueueLists, e \in SeqsUpTo({"A", "B", "C"}, 2) :
          cands = <<[device_type |-> "OTHER", max_image_dimension2_d |-> U32(0, 4096),
                     queues |-> q, exts |-> e]>>
    /\ required \in SeqsUpTo({"A", "B"}, 2)
    /\ build = "release"
    /\ sel = [phase |-> "start"]

CheckSuitable ==
    /\ sel.phase = "start"
    /\ SelectStep
    /\ UNCHANGED <<cands, required, build>>
    /\ sel' = [phase |-> "checked", suitable |-> IsSuitable(cands[1], required)]

SpecSuitable == InitSuitable /\ [][CheckSuitable]_vars

(***************************************************************************)
(* SpecApp: init and the event loop of Application::run                    *)
(* (titan_core/src/app/mod.rs).                                            *)
(***************************************************************************)
AppStep == UNCHANGED <<engineVars, arenaVars, selectVars, historyVars>>
InitResult(t, status, kind) ==
    [t |-> t, status |-> status, kind |-> kind, second |-> app.state # "none"]

\* a plain load of FLAG in place of the compare_exchange
Init_CompareExchange_LoadOnly(t) ==
    /\ ipc[t] = "idle"
    /\ calls[t] < MaxCalls
    /\ AppStep
    /\ calls' = [calls EXCEPT ![t] = @ + 1]
    /\ UNCHANGED <<newCalls, app, flag>>
    /\ IF flag = FALSE
       THEN /\ ipc' = [ipc EXCEPT ![t] = "app_new"]
            /\ UNCHANGED initLast
       ELSE /\ initLast' = InitResult(t, "Panic", "unwrap on Err")
            /\ UNCHANGED ipc

\* init, lines 179-188: FLAG.compare_exchange(UNINITIALIZED, INITIALIZED, ..)
\* returns Ok(false) and sets the flag when it was clear, else Err(true);
\* unwrap() panics on the Err, so `initialized` is false whenever it is read
\* and the else branch of lines 190-193 is never taken
Init_CompareExchange(t) ==
    /\ ipc[t] = "idle"
    /\ calls[t] < MaxCalls
    /\ AppStep
    /\ calls' = [calls EXCEPT ![t] = @ + 1]
    /\ UNCHANGED <<newCalls, app>>
    /\ IF flag = FALSE
       THEN /\ flag' = TRUE
            /\ ipc' = [ipc EXCEPT ![t] = "app_new"]
            /\ UNCHANGED initLast
       ELSE /\ initLast' = InitResult(t, "Panic", "unwrap on Err")
            /\ UNCHANGED <<flag, ipc>>

\* init, line 189, and Application::new, lines 35-54: the event loop (which
\* may panic off the main thread), Renderer::new(..)?, the egui platform
ApplicationNew(t) ==
    /\ ipc[t] = "app_new"
    /\ AppStep
    /\ newCalls' = newCalls + 1
    /\ ipc' = [ipc EXCEPT ![t] = "idle"]
    /\ UNCHANGED <<flag, calls>>
    /\ \/ /\ app' = [AppNone EXCEPT !.state = "created", !.egui = TRUE]
          /\ initLast' = InitResult(t, "Ok", "none")
       \/ /\ initLast' = InitResult(t, "Err", "Renderer")
          /\ UNCHANGED app
       \/ /\ initLast' = InitResult(t, "Panic", "event loop")
          /\ UNCHANGED app

\* Application::run, lines 65-69: event_loop.take().unwrap(), event_loop.run
ApplicationRun ==
    /\ app.state = "created"
    /\ AppStep
    /\ app' = [app EXCEPT !.state = "running"]
    /\ UNCHANGED <<flag, ipc, calls, newCalls, initLast>>

\* the closure is called with an event (line 69). After Exit the loop sends
\* nothing but LoopDestroyed.
Handling(ev) ==
    /\ app.state = "running"
    /\ ev # "LoopDestroyed" => app.control_flow # "Exit"
    /\ AppStep
    /\ UNCHANGED <<flag, ipc, calls, newCalls, initLast>>
\* line 77: self.egui.take().unwrap() panics when the platform is not in self;
\* else the handler runs and leaves the application as `next`
Taken(next) ==
    IF app.egui THEN next ELSE [app EXCEPT !.state = "panicked"]
\* a handler that does not put the platform back when it returns on an error
Handled_NoRestoreOnError(ev, control_flow, failed, delivered, logged) ==
    [app EXCEPT !.ev = ev, !.control_flow = control_flow, !.failed = failed,
                !.delivered = delivered, !.logged = logged, !.egui = ~failed]
\* how a handler leaves the application: line 75 and the arms set the control
\* flow; the event it handled, the callbacks it delivered, what it logged; and
\* self.egui = Some(egui) on every way out (lines 93, 99, 111, 126, 157)
Handled(ev, control_flow, failed, delivered, logged) ==
    [app EXCEPT !.ev = ev, !.control_flow = control_flow, !.failed = failed,
                !.delivered = delivered, !.logged = logged, !.egui = TRUE]

\* lines 82-86
HandleNewEventsInit ==
    /\ Handling("NewEvents")
    /\ app' = Taken([Handled("NewEvents", "Poll", FALSE, <<"Created">>, << >>)
                        EXCEPT !.visible = TRUE])

\* lines 87-89; an event of another window, or another window event, falls
\* through to line 157
HandleWindowEvent(own, close) ==
    /\ Handling("WindowEvent")
    /\ app' = Taken(Handled("WindowEvent", IF own /\ close THEN "Exit" ELSE "Poll",
                            FALSE, << >>, << >>))

\* a resize handler that goes on after the error
HandleResized_NoReturn(width, height) ==
    /\ Handling("Resized")
    /\ IF width = 0 \/ height = 0
       THEN app' = Taken([Handled("Resized", "Poll", FALSE, <<"Resized(default)">>,
                                  << >>)
                             EXCEPT !.size_zero = TRUE])
       ELSE \/ app' = Taken([Handled("Resized", "Exit", TRUE, <<"Resized">>,
                                     <<"window resizing error">>)
                                EXCEPT !.size_zero = FALSE])
            \/ app' = Taken([Handled("Resized", "Poll", FALSE, <<"Resized">>, << >>)
                                EXCEPT !.size_zero = FALSE])

\* lines 90-104: WindowEvent::Resized(size) of the own window
HandleResized(width, height) ==
    /\ Handling("Resized")
    /\ IF width = 0 \/ height = 0
       THEN app' = Taken([Handled("Resized", "Poll", FALSE, <<"Resized(default)">>,
                                  << >>)
                             EXCEPT !.size_zero = TRUE])
       ELSE \/ app' = Taken([Handled("Resized", "Exit", TRUE, << >>,
                                     <<"window resizing error">>)
                                EXCEPT !.size_zero = FALSE])
            \/ app' = Taken([Handled("Resized", "Poll", FALSE, <<"Resized">>, << >>)
                                EXCEPT !.size_zero = FALSE])

\* lines 108-149: Event::MainEventsCleared
HandleMainEventsCleared ==
    /\ Handling("MainEventsCleared")
    /\ IF app.size_zero
       THEN app' = Taken(Handled("MainEventsCleared", "Poll", FALSE, << >>, << >>))
       ELSE \/ app' = Taken(Handled("MainEventsCleared", "Exit", TRUE, <<"UI">>,
                                    <<"rendering error">>))
            \/ app' = Taken(Handled("MainEventsCleared", "Poll", FALSE,
                                    <<"UI", "Update">>, << >>))

\* lines 150-153: Event::LoopDestroyed, the last event of the loop
HandleLoopDestroyed ==
    /\ Handling("LoopDestroyed")
    /\ app' = Taken([Handled("LoopDestroyed", app.control_flow, FALSE,
                             <<"Destroyed">>, <<"closing this application">>)
                        EXCEPT !.state = "exited"])

NextApp ==
    \/ \E t \in Threads : Init_CompareExchange(t)
    \/ \E t \in Threads : ApplicationNew(t)
    \/ ApplicationRun
    \/ HandleNewEventsInit
    \/ \E own \in BOOLEAN, close \in BOOLEAN : HandleWindowEvent(own, close)
    \/ \E width \in {0, 800}, height \in {0, 600} : HandleResized(width, height)
    \/ HandleMainEventsCleared
    \/ HandleLoopDestroyed

SpecApp == Init /\ [][NextApp]_vars

(***************************************************************************)
(* Claims.                                                                 *)
(***************************************************************************)
AllIdle == \A t \in Threads : pc[t] = "idle"
CreationOps == {"CommandPool::new", "Framebuffer::new", "PhysicalDevice::new",
                "GraphicsPipeline::new"}
TeardownOps == {"CommandPool::drop", "Framebuffer::drop", "GraphicsPipeline::drop"}

\* C1: a creation call that finds no live record under a parent key returns a
\* NotFound error to its caller and has made no native create call.
C1_MissingParentIsNotFound ==
    (last.op \in CreationOps /\ last.miss) =>
        (last.status = "Err" /\ last.kind = "NotFound" /\ last.creates = 0)

\* C3: a teardown that finds a record of its parent chain gone does not panic:
\* it returns normally and has made no native destroy call.
C3_TeardownWithoutParentIsNoop ==
    (last.op \in TeardownOps /\ last.miss) =>
        (last.status = "Done" /\ last.destroys = 0)

\* C6: once everything that was created has been torn down, every record
\* before the record it depends on, every arena is empty and every native handle
\* the driver created has been passed to a native destroy call.
AllReleased ==
    /\ AllIdle
    /\ \A a \in ArenaNames : SmIsEmpty(arenas[a])
    /\ framebuffers = {} /\ pipelines = {}
C6_RoundTripLeavesNothing ==
    (AllReleased /\ ~wrongOrder) => nativeLive = {}
C6_Witness ==
    /\ AllReleased /\ ~wrongOrder
    /\ \E h \in nativeDead : h.kind = "command_pool"
    /\ \E h \in nativeDead : h.kind = "device"
    /\ \E h \in nativeDead : h.kind = "instance"
    /\ Len(arenas["physical_device"].slots) > 0

\* C2: GraphicsPipeline::new with a render pass and a pipeline layout that
\* both resolve but descend from different devices fails with the
\* incompatible-ancestry error, and has made no native call.
C2_DifferentDevicesIsIncompatible ==
    (last.op = "GraphicsPipeline::new" /\ last.diff) =>
        /\ last.status = "Err" /\ last.kind = "IncompatibleAncestry"
        /\ last.creates = 0 /\ last.destroys = 0
C2_Witness ==
    /\ last.op = "GraphicsPipeline::new" /\ last.diff
    /\ last.kind = "IncompatibleAncestry"
    /\ nextHandle = 1

\* C10: no thread takes the lock of an arena while it holds the lock of one
\* of that arena's descendants (ancestor arena before descendant arena).
C10_AncestorBeforeDescendant ==
    \A t \in Threads : \A i, j \in 1..Len(held[t]) :
        i < j => held[t][j].a \notin AncestorsOf(held[t][i].a)

\* C4: the keys the inserts into one arena returned are pairwise distinct,
\* and right after an insert a get with the returned key yields the record
\* that insert stored.
C4_KeysDistinctAndFound ==
    /\ \A i, j \in 1..Len(smIssued) : i # j => smIssued[i] # smIssued[j]
    /\ smLast.op = "insert" => SmGet(sm, smLast.key) = smLast.out
C4_Witness ==
    /\ smLast.op = "insert"
    /\ smRemoved # {}
    /\ \E i, j \in 1..Len(smIssued) : i # j /\ smIssued[i].idx = smIssued[j].idx
    /\ {r.owner : r \in SmRecords(sm)} = Threads

\* C5: a get with a removed key finds nothing in every later state, and no
\* insert returned that key a second time.
C5_RemovedKeysStayDead ==
    /\ \A k \in smRemoved :
          /\ SmGet(sm, k) = None
          /\ Cardinality({i \in 1..Len(smIssued) : smIssued[i] = k}) = 1
    /\ (smLast.op = "get" /\ smLast.key \in smRemoved) => smLast.out = None
C5_Witness ==
    /\ smLast.op = "get" /\ smLast.key \in smRemoved
    /\ \E k \in SmKeys(sm) : k.idx = smLast.key.idx /\ k.version # smLast.key.version

Range(seq) == {seq[i] : i \in 1..Len(seq)}
SuitableCands == {d \in Range(cands) : IsSuitable(d, required)}

\* C7: only suitable devices are ranked; the device handed to Device::new is
\* suitable and no suitable candidate scores higher; with no suitable
\* candidate the call fails and Device::new is not invoked.
C7_BestSuitableSelected ==
    sel.phase = "done" =>
        /\ Range(sel.ranked) \subseteq SuitableCands
        /\ IsSome(sel.device_new) =>
              /\ sel.device_new.val \in SuitableCands
              /\ \A c \in SuitableCands :
                    U32LessEq(Score(c).val, Score(sel.device_new.val).val)
        /\ SuitableCands = {} => (sel.status = "Err" /\ sel.device_new = None)
C7_Witness ==
    /\ sel.phase = "done" /\ sel.status = "Ok"
    /\ Len(cands) = 3 /\ Cardinality(SuitableCands) = 2
    /\ \E c \in SuitableCands : Score(c).val # Score(sel.device_new.val).val
    /\ sel.device_new.val = cands[3]

\* C8: the score is class bonus + maximum image dimension, and among a
\* discrete device of dimension 4096, an integrated one of dimension 8192 and
\* a device without a graphics queue the integrated one is selected.
Discrete4096 ==
    [device_type |-> "DISCRETE_GPU", max_image_dimension2_d |-> U32(0, 4096),
     queues |-> GraphicsQueues, exts |-> SwapchainExt]
Integrated8192 ==
    [device_type |-> "INTEGRATED_GPU", max_image_dimension2_d |-> U32(0, 8192),
     queues |-> GraphicsQueues, exts |-> SwapchainExt]
C8_Case ==
    /\ Len(cands) = 3
    /\ {Discrete4096, Integrated8192} \subseteq Range(cands)
    /\ \E d \in Range(cands) : GraphicsFamilies(d) = {}
C8_LiteralFormulaPicksIntegrated ==
    (sel.phase = "done" /\ C8_Case /\ IsSome(sel.device_new)) =>
        /\ sel.device_new.val = Integrated8192
        /\ sel.ranked = <<Integrated8192, Discrete4096>>
        /\ Score(Discrete4096).val = U32(0, 1000 + 4096)
        /\ Score(Integrated8192).val = U32(0, 100 + 8192)
C8_Witness ==
    /\ sel.phase = "done" /\ C8_Case /\ sel.status = "Ok"
    /\ sel.device_new = Some(Integrated8192)

\* C9: is_suitable is true exactly when the device has a queue family with
\* GRAPHICS and some name of the required list is among its extension names.
C9_SuitableIffAnyRequiredName ==
    sel.phase = "checked" =>
        (sel.suitable <=>
            /\ \E i \in 1..Len(cands[1].queues) : "GRAPHICS" \in cands[1].queues[i]
            /\ Range(required) \cap Range(cands[1].exts) # {})

\* C13: a teardown that finds a parent arena's lock poisoned returns without
\* a panic and without a native destroy call.
C13_TeardownToleratesPoison ==
    (last.op \in TeardownOps /\ last.kind = "PoisonError") =>
        (last.status = "Done" /\ last.destroys = 0)

\* C11: a call of init made after an earlier call has created the
\* Application returns an error value (no panic, no second Application).
C11_SecondInitReturnsError ==
    initLast.second => initLast.status = "Err"

\* C12: over all interleavings of calls of init, at most one call executes
\* Application::new.
C12_AtMostOneApplicationNew ==
    newCalls + Cardinality({t \in Threads : ipc[t] = "app_new"}) <= 1
C12_Witness ==
    /\ newCalls = 1
    /\ \A t \in Threads : calls[t] >= 1
    /\ initLast.status = "Panic" /\ initLast.kind = "unwrap on Err"

\* C15: when renderer.resize() or renderer.render() fails in the event loop,
\* the handler logs the error, sets the control flow to Exit, returns without
\* a panic, and does not deliver the Resized (or the Update) callback.
C15_RendererErrorExitsLoop ==
    app.failed =>
        /\ app.control_flow = "Exit"
        /\ app.state = "running" /\ app.egui
        /\ app.ev = "Resized" =>
              (app.delivered = << >> /\ app.logged = <<"window resizing error">>)
        /\ app.ev = "MainEventsCleared" =>
              (app.delivered = <<"UI">> /\ app.logged = <<"rendering error">>)
C15_Witness ==
    /\ app.failed /\ app.ev = "Resized" /\ app.control_flow = "Exit"
    /\ app.visible

\* whoever owns the native handle h: a record of an arena, a value held by a
\* caller, or a call that is creating or releasing its record
Owned(h) ==
    \/ \E a \in ArenaNames : \E r \in SmRecords(arenas[a]) : r.handle = h
    \/ \E fb \in framebuffers : fb.handle = h
    \/ \E p \in pipelines : p.handle = h
    \/ \E t \in Threads : pc[t] = "cp_insert" /\ loc[t].h = h
    \/ \E t \in Threads : pc[t] = "cp_drop" /\ loc[t].rec.val.handle = h

C16_Bonus(d) ==
    IF d.device_type = "DISCRETE_GPU" THEN 1000
    ELSE IF d.device_type = "INTEGRATED_GPU" THEN 100 ELSE 0
C16_Sum(d) == U32Add(d.max_image_dimension2_d, U32(0, C16_Bonus(d)))

\* C16 as stated: the class dominates, every discrete device ranks above
\* every integrated device.
C16_ClassDominates ==
    sel.phase = "done" =>
        \A i, j \in 1..Len(sel.ranked) :
            (/\ sel.ranked[i].device_type = "DISCRETE_GPU"
             /\ sel.ranked[j].device_type = "INTEGRATED_GPU") => i < j

\* C16, amended: the class bonus is added to the image dimension, so a device
\* ranks above another one only if its bonus plus dimension is at least the
\* other's (sums that fit a u32); an integrated device ranks above a discrete
\* one whose dimension is smaller by more than 900.
C16_BonusAddsToDimension ==
    sel.phase = "done" =>
        \A i, j \in 1..Len(sel.ranked) :
            (i < j /\ ~C16_Sum(sel.ranked[i]).overflow
                   /\ ~C16_Sum(sel.ranked[j]).overflow) =>
                U32LessEq(C16_Sum(sel.ranked[j]).val, C16_Sum(sel.ranked[i]).val)
C16_Witness ==
    /\ sel.phase = "done" /\ Len(sel.ranked) = 3
    /\ sel.ranked[1].device_type = "INTEGRATED_GPU"
    /\ sel.ranked[2].device_type = "DISCRETE_GPU"
    /\ sel.ranked[3].device_type = "INTEGRATED_GPU"
    /\ \A i \in 1..3 : ~C16_Sum(sel.ranked[i]).overflow

\* C17: in every creation protocol the read locks on the parent arenas are
\* released before the native create call, so no parent read lock is held
\* when the write lock on the resource's own arena is taken.
C17_ParentLocksReleasedBeforeCreate ==
    \A t \in Threads :
        /\ pc[t] \in {"cp_insert", "pd_insert"} => held[t] = << >>
        /\ \A i \in 1..Len(held[t]) : held[t][i].m = "W" => Len(held[t]) = 1

\* C18: a call of CommandPool::new or PhysicalDevice::new that returns an
\* error leaves every arena with exactly the records it had.
C18_ErrorInsertsNothing ==
    [][(/\ last' # last
        /\ last'.op \in {"CommandPool::new", "PhysicalDevice::new"}
        /\ last'.status = "Err") => arenas' = arenas]_vars
C18_Witness ==
    /\ last.op = "CommandPool::new" /\ last.status = "Err" /\ last.rejected
    /\ SmKeys(arenas["device"]) # {}
    /\ \E t \in Threads : pc[t] = "pd_insert"

\* C19: when the native driver rejects a create call, the error the caller
\* gets carries the driver's error value, for the graphics pipeline too.
C19_DriverErrorReachesCaller ==
    last.rejected => (last.status = "Err" /\ last.kind = "Driver")

DropPcs == {"cp_drop", "gp_drop_swapchain", "gp_drop_device"}
DropStepTaken ==
    \/ \E t \in Threads : pc[t] \in DropPcs /\ pc'[t] # pc[t]
    \/ framebuffers' # framebuffers /\ torn' # torn
    \/ pipelines' # pipelines /\ torn' # torn
C21_TeardownLeavesParentArenas ==
    [][DropStepTaken => arenas' = arenas]_vars
C21_Witness ==
    /\ last.op = "GraphicsPipeline::drop"
    /\ last.destroys = 0
    /\ last.miss
    /\ \E h \in nativeDead : h.kind = "device"
    /\ SmKeys(arenas["render_pass"]) # {}
    /\ SmKeys(arenas["pipeline_layout"]) # {}

\* C23: from its lookup to its insert, and while the inserted record is still
\* under the creation's guards, CommandPool::new resolves its device key to a
\* live device and PhysicalDevice::new its instance key to a live instance,
\* whatever the other thread removes in between.
C23_ParentLiveAtInsert ==
    \A t \in Threads :
        /\ pc[t] \in {"cp_insert", "cp_return"} =>
              IsSome(SmGet(arenas["device"], loc[t].key))
        /\ pc[t] \in {"pd_insert", "pd_return"} =>
              IsSome(SmGet(arenas["instance"], loc[t].key))
C23_Witness ==
    \E t, u \in Threads :
        /\ pc[t] = "cp_return"
        /\ loc[t].key2 \in SmKeys(arenas["command_pool"])
        /\ pc[u] = "pd_return"
        /\ loc[u].key2 \in SmKeys(arenas["physical_device"])

\* C25: whenever the event loop calls the handler, the egui platform is in
\* self, so take().unwrap() does not panic: every handler invocation, also the
\* zero-size, the resize-error and the render-error returns, has put it back.
C25_EguiPresentAtHandlerStart ==
    /\ app.state # "panicked"
    /\ app.state \in {"created", "running"} => app.egui
C25_Witness ==
    /\ app.state = "running" /\ app.egui
    /\ app.ev = "MainEventsCleared" /\ app.failed
    /\ app.size_zero = FALSE /\ app.visible

\* C26: score() never overflows the u32: whenever the ranking has computed
\* the scores (two or more suitable devices), no sum of class bonus and image
\* dimension wraps or panics, and of two devices of one class the one with
\* the larger dimension never has the smaller score.
C26_ScoreNeverOverflows ==
    (sel.phase = "done" /\ Cardinality(SuitableCands) >= 2) =>
        /\ sel.kind # "overflow"
        /\ \A d \in SuitableCands : ~Score(d).overflow
        /\ \A a, b \in SuitableCands :
              (/\ a.device_type = b.device_type
               /\ U32LessEq(a.max_image_dimension2_d, b.max_image_dimension2_d)) =>
                  U32LessEq(Score(a).val, Score(b).val)

\* the records of arena a sit under their own key
KeyFieldIsSlotKey(a) ==
    \A i \in 1..Len(arenas[a].slots) :
        arenas[a].slots[i].value # Vacant =>
            arenas[a].slots[i].value.key = Key(i, arenas[a].slots[i].version)

TeardownRank(e) ==
    CASE e = "device" -> 1 [] e = "physical_device" -> 2 [] OTHER -> 3
ChildFirst(log) ==
    \A i, j \in 1..Len(log) : i < j => TeardownRank(log[i]) <= TeardownRank(log[j])
Count(log, e) == Cardinality({i \in 1..Len(log) : log[i] = e})

\* C22: the renderer tears down child-first. When a Renderer is dropped, the
\* device is torn down first, then every physical device it holds, then the
\* instance; on every way out of Renderer::new without a Renderer no device
\* exists, every physical device that was enumerated is torn down before the
\* instance, and the instance is torn down last if it was created.
C22_ChildFirstTeardown ==
    /\ sel.phase \in {"done", "dropped"} =>
          /\ ChildFirst(sel.new_drops)
          /\ Count(sel.new_drops, "device") = 0
          /\ sel.status = "Ok" =>
                /\ Count(sel.new_drops, "instance") = 0
                /\ Count(sel.new_drops, "physical_device")
                      = Len(cands) - Len(sel.ranked)
          /\ (sel.status # "Ok" /\ sel.kind # "Instance") =>
                /\ Count(sel.new_drops, "instance") = 1
                /\ sel.kind # "Enumerate" =>
                      Count(sel.new_drops, "physical_device") = Len(cands)
    /\ sel.phase = "dropped" =>
          /\ ChildFirst(sel.drops)
          /\ Count(sel.drops, "device") = 1
          /\ Count(sel.drops, "physical_device") = Len(sel.ranked)
          /\ Count(sel.drops, "instance") = 1
C22_Witness ==
    /\ sel.phase = "dropped"
    /\ Len(sel.ranked) = 2
    /\ Len(sel.new_drops) = 1
    /\ sel.drops = <<"device", "physical_device", "physical_device", "instance">>

====
